---- MODULE Spec2Model ----
(***************************************************************************)
(* Round/score engine of the trick-taking score keeper.                    *)
(*                                                                         *)
(* Independent objects of the repository are modelled, each with its       *)
(* own specification over the shared variable list:                        *)
(*   SpecTracker  ScoreTracker            (src/unnamed/part_008)           *)
(*   SpecHook     useRoundManager hook    (src/unnamed/part_001)           *)
(*   SpecRounds   RoundManager class      (src/js/rounds.js)               *)
(*   SpecScore    the base-score functions (src/src/game/scoreCalculator.js*)
(*                and src/js/scoring.js)                                   *)
(*   SpecBonus    useBonusPoints hook     (src/unnamed/part_001:3-49)      *)
(*   SpecPage     the page script's gameState (src/unnamed/part_010)       *)
(*   SpecUpdate   updatePlayerScores      (src/js/scoring.js:159-185)      *)
(* The variable `focus` names the object a behaviour is about; the other   *)
(* objects' variables keep their constructed values.                       *)
(***************************************************************************)
EXTENDS Integers, Sequences, FiniteSets, TLC

VARIABLES
    focus,          \* which object this behaviour exercises
    ret,            \* the last call: [op, outcome]
    \* ScoreTracker (part_008:5-10)
    players,        \* the Map, in insertion order: Seq of [name,totalScore,roundScores,rank]
    rounds,         \* Seq of [roundNumber, scores]
    currentRound,
    gameEnded,
    \* useRoundManager (part_001:65-67)
    hCurrentRound,
    roundsData,
    gameComplete,
    \* RoundManager (js/rounds.js:6-9)
    rmCurrentRound,
    completedHands,
    \* base-score call (arguments and result)
    bid,
    actualTricks,
    cardsDealt,
    score,
    \* useBonusPoints (part_001:4) and its last calculateAppliedBonusPoints call
    bonusPointsHistory,
    appliedBonus,
    \* the page script's gameState (part_010:17-22)
    gsPlayers,
    gsCurrentRound,
    \* updatePlayerScores call (arguments and result)
    upd,
    \* what the last ScoreTracker getter handed out: which storage it shares
    handed,
    \* PlayerManager (src/player-manager.js:7-12) and the ids generated so far
    pmPlayers,
    gameStarted,
    nextId

vars == <<focus, ret, players, rounds, currentRound, gameEnded,
          hCurrentRound, roundsData, gameComplete,
          rmCurrentRound, completedHands,
          bid, actualTricks, cardsDealt, score,
          bonusPointsHistory, appliedBonus, gsPlayers, gsCurrentRound, upd,
          handed, pmPlayers, gameStarted, nextId>>

trackerVars == <<players, rounds, currentRound, gameEnded>>
hookVars    == <<hCurrentRound, roundsData, gameComplete>>
rmVars      == <<rmCurrentRound, completedHands>>
scoreVars   == <<bid, actualTricks, cardsDealt, score>>
bonusVars   == <<bonusPointsHistory, appliedBonus>>
pageVars    == <<gsPlayers, gsCurrentRound>>
pmVars      == <<pmPlayers, gameStarted, nextId>>

(***************************************************************************)
(* Bounds of the model                                                     *)
(***************************************************************************)
MaxRounds  == 2     \* addRoundScores is exercised while fewer rounds are stored
MaxReadRounds == 1  \* the same limit where the getters are exercised as well

totalRounds == 3    \* the hook's totalRounds option (its default is 10)
MaxArg     == 4     \* largest bid / tricks / cardsDealt handed to the score functions
MaxBonusRound == 2  \* rounds for which bonus points are declared
MaxResults == 2     \* longest roundResults array handed to a call
MaxPageRound == 11  \* the page's New Round button is pressed while below this round
ExtraIds   == 1     \* player ids generated beyond maxPlayers
minPlayers == 2     \* PlayerManager.minPlayers (src/player-manager.js:10)
maxPlayers == 8     \* PlayerManager.maxPlayers (src/player-manager.js:11)
LastRound  == 10    \* RoundManager's maximum round (js/rounds.js:48)

Roster     == <<"Alice", "Bob", "Charlie">>   \* tests/ScoreTracker.test.js:5
Names      == {Roster[i] : i \in DOMAIN Roster}
BadName    == ""                      \* an empty (or non-string) list element
ExtraKey   == "Zed"                   \* a key that is never a player name
ScoreVals  == {-10, 20}               \* numeric scores offered to addRoundScores

Call(op, outcome) == [op |-> op, outcome |-> outcome]

(***************************************************************************)
(* Generic helpers                                                         *)
(***************************************************************************)
RECURSIVE SeqSum(_)
SeqSum(s) == IF s = <<>> THEN 0 ELSE Head(s) + SeqSum(Tail(s))

\* all sequences over S of length 0..n
SeqsUpTo(S, n) == UNION {[1..k -> S] : k \in 0..n}

\* the same set, enumerated once
Enumerated(S) == {x : x \in S}

\* JS Array.prototype.sort with comparator (a, b) => k[a] - k[b]: the indices of
\* k in ascending key order, equal keys keeping their original order (stable).
InsertIdx(t, i, k) ==
    LET c == Cardinality({p \in DOMAIN t : k[t[p]] <= k[i]})
    IN  SubSeq(t, 1, c) \o <<i>> \o SubSeq(t, c + 1, Len(t))

RECURSIVE StableOrderUpTo(_, _)
StableOrderUpTo(k, n) ==
    IF n = 0 THEN <<>> ELSE InsertIdx(StableOrderUpTo(k, n - 1), n, k)

StableOrder(k) == StableOrderUpTo(k, Len(k))

(***************************************************************************)
(* ScoreTracker (src/unnamed/part_008)                                     *)
(***************************************************************************)
\* players.get(name): the index of name in the Map, 0 when absent
PlayerIndex(ps, name) ==
    IF \E i \in DOMAIN ps : ps[i].name = name
    THEN CHOOSE i \in DOMAIN ps : ps[i].name = name
    ELSE 0

PlayerNames(ps) == {ps[i].name : i \in DOMAIN ps}

NewPlayer(name) == [name |-> name, totalScore |-> 0, roundScores |-> <<>>, rank |-> 1]

\* players.set(name, fresh record): an existing key keeps its position
MapSet(ps, name) ==
    IF PlayerIndex(ps, name) = 0
    THEN Append(ps, NewPlayer(name))
    ELSE [ps EXCEPT ![PlayerIndex(ps, name)] = NewPlayer(name)]

\* typeof name !== 'string' || name.trim() === ''
InvalidName(name) == name = BadName

\* the forEach of initializePlayers: stops at the first invalid name (the throw)
RECURSIVE SetPlayers(_, _)
SetPlayers(ps, names) ==
    IF names = <<>> \/ InvalidName(Head(names)) THEN ps
    ELSE SetPlayers(MapSet(ps, Head(names)), Tail(names))

AllNamesValid(names) == \A i \in DOMAIN names : ~InvalidName(names[i])

\* an initializePlayers that keeps the recorded rounds and the ended flag
initializePlayers_KeepHistory(playerNames) ==
    IF Len(playerNames) = 0
    THEN /\ ret' = Call("initializePlayers", "error")
         /\ UNCHANGED trackerVars
    ELSE /\ players' = SetPlayers(<<>>, playerNames)
         /\ UNCHANGED <<rounds, currentRound, gameEnded>>
         /\ ret' = Call("initializePlayers",
                        IF AllNamesValid(playerNames) THEN "ok" ELSE "error")

\* initializePlayers(playerNames), playerNames an array
initializePlayers(playerNames) ==
    IF Len(playerNames) = 0
    THEN /\ ret' = Call("initializePlayers", "error")
         /\ UNCHANGED trackerVars
    ELSE /\ players' = SetPlayers(<<>>, playerNames)
         /\ rounds' = <<>>
         /\ currentRound' = 0
         /\ gameEnded' = FALSE
         /\ ret' = Call("initializePlayers",
                        IF AllNamesValid(playerNames) THEN "ok" ELSE "error")

\* initializePlayers(null): !Array.isArray(playerNames)
initializePlayersNonArray ==
    /\ ret' = Call("initializePlayers", "error")
    /\ UNCHANGED trackerVars

\* A roundScores object is a sequence of entries [key, num, val] in its own
\* property order; num is FALSE for a value that is not a number (or is NaN).
HasKey(entries, k) == \E i \in DOMAIN entries : entries[i].key = k
EntryOf(entries, k) == entries[CHOOSE i \in DOMAIN entries : entries[i].key = k]

\* { ...roundScores }: the stored copy, key -> value
CopyScores(entries) ==
    [k \in {entries[i].key : i \in DOMAIN entries} |->
        [num |-> EntryOf(entries, k).num, val |-> EntryOf(entries, k).val]]

\* a tracker that forgets the gameEnded guard
GameEndedCheck_Skipped == FALSE

\* if (this.gameEnded) throw
GameEndedCheck == gameEnded

\* the validation loop over this.players.keys()
ScoresInvalid(ps, entries) ==
    \E i \in DOMAIN ps :
        \/ ~HasKey(entries, ps[i].name)
        \/ ~EntryOf(entries, ps[i].name).num

\* a total that is overwritten by the round's score instead of growing by it
AddScore_Overwrite(p, s) ==
    [p EXCEPT !.roundScores = Append(@, s), !.totalScore = s]

\* player.roundScores.push(score); player.totalScore += score
AddScore(p, s) ==
    [p EXCEPT !.roundScores = Append(@, s), !.totalScore = @ + s]

\* the loop over Object.entries(roundScores): players.get of a key that names
\* no player is undefined, and reading its roundScores throws a TypeError
RECURSIVE ApplyEntries(_, _)
ApplyEntries(ps, entries) ==
    IF entries = <<>> THEN [players |-> ps, thrown |-> FALSE]
    ELSE LET i == PlayerIndex(ps, Head(entries).key)
         IN  IF i = 0 THEN [players |-> ps, thrown |-> TRUE]
             ELSE ApplyEntries([ps EXCEPT ![i] = AddScore(ps[i], Head(entries).val)],
                               Tail(entries))

\* a ranking that counts tied groups instead of players (1,1,2)
NextRank_Dense(currentRank, playersAtRank) == currentRank + 1

\* currentRank += playersAtRank
NextRank(currentRank, playersAtRank) == currentRank + playersAtRank

\* the forEach of _updateRankings over the first n players of the sorted order
RECURSIVE RankWalk(_, _, _)
RankWalk(ps, order, n) ==
    IF n = 0
    THEN [players |-> ps, currentRank |-> 1, hasPrevious |-> FALSE,
          previousScore |-> 0, playersAtRank |-> 0]
    ELSE LET w    == RankWalk(ps, order, n - 1)
             i    == order[n]
             drop == w.hasPrevious /\ w.players[i].totalScore < w.previousScore
             rk   == IF drop THEN NextRank(w.currentRank, w.playersAtRank)
                     ELSE w.currentRank
         IN  [players |-> [w.players EXCEPT ![i].rank = rk],
              currentRank |-> rk,
              hasPrevious |-> TRUE,
              previousScore |-> w.players[i].totalScore,
              playersAtRank |-> IF drop THEN 1 ELSE w.playersAtRank + 1]

\* sort((a, b) => b[1].totalScore - a[1].totalScore)
ByTotalDescending(ps) == StableOrder([i \in DOMAIN ps |-> 0 - ps[i].totalScore])

updateRankings(ps) == RankWalk(ps, ByTotalDescending(ps), Len(ps)).players

\* getCurrentStandings (part_008:112-122): the Map's entries sorted by stored
\* rank, ascending and stable; StandingsOrder is the sorted index order
StandingsOrder(ps) == StableOrder([i \in DOMAIN ps |-> ps[i].rank])

getCurrentStandings(ps) ==
    [n \in DOMAIN ps |->
        LET data == ps[StandingsOrder(ps)[n]]
        IN [name |-> data.name, totalScore |-> data.totalScore, rank |-> data.rank,
            roundScores |-> data.roundScores, isLeader |-> data.rank = 1]]

\* getCurrentLeaders (part_008:128-131)
getCurrentLeaders(ps) == SelectSeq(getCurrentStandings(ps), LAMBDA p : p.rank = 1)

\* getFinalRankings (part_008:157-163): the standings, each with isFinalWinner
getFinalRankings(ps) ==
    [n \in DOMAIN ps |->
        LET p == getCurrentStandings(ps)[n]
        IN [name |-> p.name, totalScore |-> p.totalScore, rank |-> p.rank,
            roundScores |-> p.roundScores, isLeader |-> p.isLeader,
            isFinalWinner |-> p.rank = 1]]

\* addRoundScores(roundScores), roundScores an object
addRoundScores(entries) ==
    IF GameEndedCheck \/ ScoresInvalid(players, entries)
    THEN /\ ret' = Call("addRoundScores", "error")
         /\ UNCHANGED trackerVars
    ELSE LET applied == ApplyEntries(players, entries)
         IN  /\ rounds' = Append(rounds, [roundNumber |-> currentRound + 1,
                                          scores |-> CopyScores(entries)])
             /\ gameEnded' = gameEnded
             /\ IF applied.thrown
                THEN /\ players' = applied.players
                     /\ currentRound' = currentRound
                     /\ ret' = Call("addRoundScores", "error")
                ELSE /\ players' = updateRankings(applied.players)
                     /\ currentRound' = currentRound + 1
                     /\ ret' = Call("addRoundScores", "ok")

\* addRoundScores(null): !roundScores || typeof roundScores !== 'object'
addRoundScoresNull ==
    /\ ret' = Call("addRoundScores", "error")
    /\ UNCHANGED trackerVars

\* endGame()
endGame ==
    /\ gameEnded' = TRUE
    /\ ret' = Call("endGame", "ok")
    /\ UNCHANGED <<players, rounds, currentRound>>

(***************************************************************************)
(* ScoreTracker: construction, inputs and next-state relation              *)
(***************************************************************************)
TrackerInit ==
    /\ players = <<>>
    /\ rounds = <<>>
    /\ currentRound = 0
    /\ gameEnded = FALSE

\* position of a name in the roster
RosterIndex(name) == CHOOSE i \in DOMAIN Roster : Roster[i] = name

\* lists handed to initializePlayers: the first k roster names, with at most
\* one of them replaced by an empty string (at position b; b = 0: none)
NameLists ==
    {[i \in 1..k |-> IF i = b THEN BadName ELSE Roster[i]] :
        k \in 0..Len(Roster), b \in 0..Len(Roster)}

\* objects handed to addRoundScores: any subset of the names, each with a
\* number or a non-number, in roster order, and optionally the extra key at
\* any position of the property order. A call draws its object among those
\* whose keys are current players or the extra key (ObjectsFor).
PlayerValues == {[num |-> TRUE, val |-> v] : v \in ScoreVals} \cup {[num |-> FALSE, val |-> 0]}
PlayerEntries == {[key |-> k, num |-> x.num, val |-> x.val] : k \in Names, x \in PlayerValues}
ExtraEntry == [key |-> ExtraKey, num |-> TRUE, val |-> 20]
RoundScoreObjects ==
    {e \in Enumerated(SeqsUpTo(PlayerEntries \cup {ExtraEntry}, Len(Roster) + 1)) :
        /\ \A i, j \in DOMAIN e : i # j => e[i].key # e[j].key
        /\ \A i, j \in DOMAIN e :
              (i < j /\ e[i].key \in Names /\ e[j].key \in Names)
                  => RosterIndex(e[i].key) < RosterIndex(e[j].key)}

ObjectsByNames ==
    [S \in SUBSET Names |->
        {e \in RoundScoreObjects :
            \A i \in DOMAIN e : e[i].key \in S \cup {ExtraKey}}]

ObjectsFor(ps) == ObjectsByNames[PlayerNames(ps) \cap Names]

\* the specifications that exercise the ScoreTracker operations, and the
\* number of rounds each of them lets addRoundScores store
TrackerFocus == {"tracker", "reads"}
RoundLimit == IF focus = "reads" THEN MaxReadRounds ELSE MaxRounds

InitializePlayers ==
    /\ focus \in TrackerFocus
    /\ \/ \E playerNames \in NameLists : initializePlayers(playerNames)
       \/ initializePlayersNonArray
    /\ UNCHANGED <<focus, hookVars, rmVars, scoreVars, bonusVars, pageVars, upd, handed, pmVars>>

AddRoundScores ==
    /\ focus \in TrackerFocus
    /\ Len(rounds) < RoundLimit
    /\ \/ \E roundScores \in ObjectsFor(players) : addRoundScores(roundScores)
       \/ addRoundScoresNull
    /\ UNCHANGED <<focus, hookVars, rmVars, scoreVars, bonusVars, pageVars, upd, handed, pmVars>>

EndGame ==
    /\ focus \in TrackerFocus
    /\ endGame
    /\ UNCHANGED <<focus, hookVars, rmVars, scoreVars, bonusVars, pageVars, upd, handed, pmVars>>

NextTracker == InitializePlayers \/ AddRoundScores \/ EndGame

(***************************************************************************)
(* ScoreTracker getters (part_008:112-199).  A getter assigns no field; what *)
(* matters for the tracker is whether the arrays it hands out are its own   *)
(* storage.  handed records, for the last getter called, whether the         *)
(* returned round history and the returned roundScores arrays are the        *)
(* tracker's own objects; MutateReturned is a caller emptying the arrays it  *)
(* was handed.                                                              *)
(***************************************************************************)
Handed(op, rs, sc) == [op |-> op, rounds |-> rs, roundScores |-> sc]

ReadsInit == handed = Handed("none", FALSE, FALSE)

\* a getRoundBreakdown that returns this.rounds itself
RoundBreakdownShares_Alias == TRUE

\* part_008:138-141: rounds.map(round => ({ ...round, scores: { ...round.scores } }))
\* builds a new array of new objects with new scores objects
RoundBreakdownShares == FALSE

\* part_008:118 and 193: roundScores: [...data.roundScores] is a new array
RoundScoresShared == FALSE

getCurrentStandingsCall ==
    /\ handed' = Handed("getCurrentStandings", FALSE, RoundScoresShared)
    /\ UNCHANGED trackerVars
    /\ ret' = Call("getCurrentStandings", "ok")

\* filter of the standings: the same player objects as getCurrentStandings
getCurrentLeadersCall ==
    /\ handed' = Handed("getCurrentLeaders", FALSE, RoundScoresShared)
    /\ UNCHANGED trackerVars
    /\ ret' = Call("getCurrentLeaders", "ok")

getRoundBreakdown ==
    /\ handed' = Handed("getRoundBreakdown", RoundBreakdownShares, FALSE)
    /\ UNCHANGED trackerVars
    /\ ret' = Call("getRoundBreakdown", "ok")

\* part_008:169-177: built from the three getters above
getGameSummary ==
    /\ handed' = Handed("getGameSummary", RoundBreakdownShares, RoundScoresShared)
    /\ UNCHANGED trackerVars
    /\ ret' = Call("getGameSummary", "ok")

\* part_008:184-199
getPlayerHistory(playerName) ==
    IF PlayerIndex(players, playerName) = 0
    THEN /\ ret' = Call("getPlayerHistory", "error")
         /\ UNCHANGED <<trackerVars, handed>>
    ELSE /\ handed' = Handed("getPlayerHistory", FALSE, RoundScoresShared)
         /\ UNCHANGED trackerVars
         /\ ret' = Call("getPlayerHistory", "ok")

\* the caller empties every array of the value it was handed (length = 0)
mutateReturned ==
    /\ rounds' = IF handed.rounds THEN <<>> ELSE rounds
    /\ players' = IF handed.roundScores
                  THEN [i \in DOMAIN players |-> [players[i] EXCEPT !.roundScores = <<>>]]
                  ELSE players
    /\ UNCHANGED <<currentRound, gameEnded, handed>>
    /\ ret' = Call("mutateReturned", "ok")

GetCurrentStandings ==
    /\ focus = "reads" /\ getCurrentStandingsCall
    /\ UNCHANGED <<focus, hookVars, rmVars, scoreVars, bonusVars, pageVars, upd, pmVars>>

GetCurrentLeaders ==
    /\ focus = "reads" /\ getCurrentLeadersCall
    /\ UNCHANGED <<focus, hookVars, rmVars, scoreVars, bonusVars, pageVars, upd, pmVars>>

GetRoundBreakdown ==
    /\ focus = "reads" /\ getRoundBreakdown
    /\ UNCHANGED <<focus, hookVars, rmVars, scoreVars, bonusVars, pageVars, upd, pmVars>>

GetGameSummary ==
    /\ focus = "reads" /\ getGameSummary
    /\ UNCHANGED <<focus, hookVars, rmVars, scoreVars, bonusVars, pageVars, upd, pmVars>>

GetPlayerHistory ==
    /\ focus = "reads"
    /\ \E playerName \in Names \cup {ExtraKey} : getPlayerHistory(playerName)
    /\ UNCHANGED <<focus, hookVars, rmVars, scoreVars, bonusVars, pageVars, upd, pmVars>>

MutateReturned ==
    /\ focus = "reads"
    /\ handed.op # "none"
    /\ mutateReturned
    /\ UNCHANGED <<focus, hookVars, rmVars, scoreVars, bonusVars, pageVars, upd, pmVars>>

NextReads ==
    \/ NextTracker
    \/ GetCurrentStandings \/ GetCurrentLeaders \/ GetRoundBreakdown
    \/ GetGameSummary \/ GetPlayerHistory \/ MutateReturned

(***************************************************************************)
(* useRoundManager hook (src/unnamed/part_001:57-200).  Each call runs on   *)
(* the state committed by the previous one (the tests wrap every call in    *)
(* act()); the onRoundComplete / onGameComplete callbacks are the default   *)
(* no-ops, and the Date values of startTime / endTime are kept as "set or   *)
(* null".                                                                   *)
(***************************************************************************)
RoundNumbers == 1..totalRounds

\* the useEffect that fills roundsData after mount
InitialRoundData(round) ==
    [number |-> round, handsRequired |-> round, handsCompleted |-> 0,
     scores |-> <<>>, isComplete |-> FALSE, startTime |-> FALSE, endTime |-> FALSE]

HookInit ==
    /\ hCurrentRound = 1
    /\ roundsData = [round \in RoundNumbers |-> InitialRoundData(round)]
    /\ gameComplete = FALSE

\* a round that counts as complete whatever its hands
HandsSuffice_Always(done, required) == TRUE

\* handsCompleted >= handsRequired
HandsSuffice(done, required) == done >= required

\* a hook that takes every round for complete
isRoundComplete_Always(roundNumber) == TRUE

isRoundComplete(roundNumber) ==
    IF roundNumber \in DOMAIN roundsData
    THEN HandsSuffice(roundsData[roundNumber].handsCompleted,
                      roundsData[roundNumber].handsRequired)
    ELSE FALSE

updateHandCompletion(handsCompleted, scores) ==
    /\ roundsData' = [roundsData EXCEPT ![hCurrentRound] =
            [@ EXCEPT !.handsCompleted = handsCompleted,
                      !.scores = scores,
                      !.isComplete = handsCompleted >= roundsData[hCurrentRound].handsRequired,
                      !.endTime = handsCompleted >= roundsData[hCurrentRound].handsRequired]]
    /\ UNCHANGED <<hCurrentRound, gameComplete>>
    /\ ret' = Call("updateHandCompletion", "ok")

hookAdvanceRound ==
    IF ~isRoundComplete(hCurrentRound)
    THEN /\ ret' = Call("advanceRound", "error")
         /\ UNCHANGED hookVars
    ELSE /\ ret' = Call("advanceRound", "ok")
         /\ IF hCurrentRound < totalRounds
            THEN /\ hCurrentRound' = hCurrentRound + 1
                 /\ roundsData' = [roundsData EXCEPT ![hCurrentRound + 1].startTime = TRUE]
                 /\ UNCHANGED gameComplete
            ELSE /\ gameComplete' = TRUE
                 /\ UNCHANGED <<hCurrentRound, roundsData>>

\* the call record of goToRound keeps its argument
GoTo(roundNumber, outcome) ==
    [op |-> "goToRound", outcome |-> outcome, roundNumber |-> roundNumber]

\* a goToRound without the "Cannot skip" test
goToRound_SkipAllowed(roundNumber) ==
    IF roundNumber < 1 \/ roundNumber > totalRounds
    THEN /\ ret' = GoTo(roundNumber, "error")
         /\ UNCHANGED hookVars
    ELSE /\ hCurrentRound' = roundNumber
         /\ ret' = GoTo(roundNumber, "ok")
         /\ UNCHANGED <<roundsData, gameComplete>>

goToRound(roundNumber) ==
    IF roundNumber < 1 \/ roundNumber > totalRounds
    THEN /\ ret' = GoTo(roundNumber, "error")
         /\ UNCHANGED hookVars
    ELSE IF roundNumber > hCurrentRound
    THEN /\ ret' = GoTo(roundNumber, "error")
         /\ UNCHANGED hookVars
    ELSE /\ hCurrentRound' = roundNumber
         /\ ret' = GoTo(roundNumber, "ok")
         /\ UNCHANGED <<roundsData, gameComplete>>

\* inputs of the hook's calls
HandInputs  == 0..totalRounds
ScoreInputs == {<<>>, <<100>>}
RoundInputs == 0..(totalRounds + 1)

UpdateHandCompletion ==
    /\ focus = "hook"
    /\ \E handsCompleted \in HandInputs, scores \in ScoreInputs :
          updateHandCompletion(handsCompleted, scores)
    /\ UNCHANGED <<focus, trackerVars, rmVars, scoreVars, bonusVars, pageVars, upd, handed, pmVars>>

HookAdvanceRound ==
    /\ focus = "hook"
    /\ hookAdvanceRound
    /\ UNCHANGED <<focus, trackerVars, rmVars, scoreVars, bonusVars, pageVars, upd, handed, pmVars>>

GoToRound ==
    /\ focus = "hook"
    /\ \E roundNumber \in RoundInputs : goToRound(roundNumber)
    /\ UNCHANGED <<focus, trackerVars, rmVars, scoreVars, bonusVars, pageVars, upd, handed, pmVars>>

NextHook == UpdateHandCompletion \/ HookAdvanceRound \/ GoToRound

(***************************************************************************)
(* RoundManager class (src/js/rounds.js:5-93)                              *)
(***************************************************************************)
RmInit ==
    /\ rmCurrentRound = 1
    /\ completedHands = 0

getMaxHands == rmCurrentRound

\* a manager that lets any round advance
canAdvanceRound_Always == TRUE

canAdvanceRound == completedHands >= getMaxHands

rmAdvanceRound ==
    IF rmCurrentRound >= LastRound
    THEN /\ ret' = Call("advanceRound", "false")
         /\ UNCHANGED rmVars
    ELSE IF ~canAdvanceRound
    THEN /\ ret' = Call("advanceRound", "error")
         /\ UNCHANGED rmVars
    ELSE /\ rmCurrentRound' = rmCurrentRound + 1
         /\ completedHands' = 0
         /\ ret' = Call("advanceRound", "true")

resetRound ==
    /\ completedHands' = 0
    /\ UNCHANGED rmCurrentRound
    /\ ret' = Call("resetRound", "ok")

\* a completeHand without the test against getMaxHands
completeHand_Uncapped ==
    /\ completedHands' = completedHands + 1
    /\ UNCHANGED rmCurrentRound
    /\ ret' = Call("completeHand", "ok")

completeHand ==
    /\ completedHands' = IF completedHands < getMaxHands
                         THEN completedHands + 1 ELSE completedHands
    /\ UNCHANGED rmCurrentRound
    /\ ret' = Call("completeHand", "ok")

resetGame ==
    /\ rmCurrentRound' = 1
    /\ completedHands' = 0
    /\ ret' = Call("resetGame", "ok")

RmAdvanceRound ==
    /\ focus = "rm" /\ rmAdvanceRound
    /\ UNCHANGED <<focus, trackerVars, hookVars, scoreVars, bonusVars, pageVars, upd, handed, pmVars>>

ResetRound ==
    /\ focus = "rm" /\ resetRound
    /\ UNCHANGED <<focus, trackerVars, hookVars, scoreVars, bonusVars, pageVars, upd, handed, pmVars>>

CompleteHand ==
    /\ focus = "rm" /\ completeHand
    /\ UNCHANGED <<focus, trackerVars, hookVars, scoreVars, bonusVars, pageVars, upd, handed, pmVars>>

ResetGame ==
    /\ focus = "rm" /\ resetGame
    /\ UNCHANGED <<focus, trackerVars, hookVars, scoreVars, bonusVars, pageVars, upd, handed, pmVars>>

NextRm == RmAdvanceRound \/ ResetRound \/ CompleteHand \/ ResetGame

(***************************************************************************)
(* Base-score functions.  A result is [out, val]: out is "error" for a     *)
(* throw, and val the returned number otherwise.  Arguments are numbers.   *)
(***************************************************************************)
Threw == [out |-> "error", val |-> 0]
Returned(v) == [out |-> "ok", val |-> v]

Abs(x) == IF x < 0 THEN 0 - x ELSE x

\* a zero-bid failure charged per trick taken instead of per card dealt
ZeroBidScore_PerTrick(tricks, cards) ==
    IF tricks = 0 THEN 10 * cards ELSE (0 - 10) * tricks

\* scoreCalculator.js:27-35, scoring.js:132-140 (the same branch in both)
ZeroBidScore(tricks, cards) ==
    IF tricks = 0 THEN 10 * cards ELSE (0 - 10) * cards

\* an exact bid paid per card dealt instead of per trick
RegularBidScore_PerCard(b, tricks, cards) ==
    IF b = tricks THEN 20 * cards ELSE (0 - 10) * Abs(b - tricks)

\* a missed bid charged a flat 10 points whatever the difference
RegularBidScore_FlatPenalty(b, tricks, cards) ==
    IF b = tricks THEN 20 * tricks ELSE 0 - 10

\* scoreCalculator.js:38-45, scoring.js:143-150 (the same branch in both)
RegularBidScore(b, tricks, cards) ==
    IF b = tricks THEN 20 * tricks ELSE (0 - 10) * Abs(b - tricks)

\* ScoreCalculator.calculateScore (src/src/game/scoreCalculator.js:14-46)
calculateScore(b, tricks, cards) ==
    IF b < 0 THEN Threw
    ELSE IF tricks < 0 THEN Threw
    ELSE IF cards <= 0 THEN Threw
    ELSE IF b = 0 THEN Returned(ZeroBidScore(tricks, cards))
    ELSE Returned(RegularBidScore(b, tricks, cards))

\* calculateRoundScore (src/js/scoring.js:117-151, the definition in effect)
calculateRoundScore(b, tricks, cards) ==
    IF b < 0 \/ tricks < 0 \/ cards < 0 THEN Threw
    ELSE IF tricks > cards \/ b > cards THEN Threw
    ELSE IF b = 0 THEN Returned(ZeroBidScore(tricks, cards))
    ELSE Returned(RegularBidScore(b, tricks, cards))

ArgRange == (0 - 1)..MaxArg

ScoreInit ==
    /\ bid = 0
    /\ actualTricks = 0
    /\ cardsDealt = 1
    /\ score = [fn |-> "none", out |-> "none", val |-> 0]

\* one call of either function on fresh arguments
CalculateScore ==
    /\ focus = "score"
    /\ \E b \in ArgRange, t \in ArgRange, c \in ArgRange :
          /\ bid' = b /\ actualTricks' = t /\ cardsDealt' = c
          /\ score' = [fn |-> "calculateScore",
                       out |-> calculateScore(b, t, c).out,
                       val |-> calculateScore(b, t, c).val]
          /\ ret' = Call("calculateScore", calculateScore(b, t, c).out)
    /\ UNCHANGED <<focus, trackerVars, hookVars, rmVars, bonusVars, pageVars, upd, handed, pmVars>>

CalculateRoundScore ==
    /\ focus = "score"
    /\ \E b \in ArgRange, t \in ArgRange, c \in ArgRange :
          /\ bid' = b /\ actualTricks' = t /\ cardsDealt' = c
          /\ score' = [fn |-> "calculateRoundScore",
                       out |-> calculateRoundScore(b, t, c).out,
                       val |-> calculateRoundScore(b, t, c).val]
          /\ ret' = Call("calculateRoundScore", calculateRoundScore(b, t, c).out)
    /\ UNCHANGED <<focus, trackerVars, hookVars, rmVars, bonusVars, pageVars, upd, handed, pmVars>>

NextScore == CalculateScore \/ CalculateRoundScore

(***************************************************************************)
(* useBonusPoints hook (src/unnamed/part_001:3-49).  bonusPointsHistory is  *)
(* the object { round: { playerId: points } }; a missing key is a value     *)
(* outside the function's domain.  Calls run on committed state.            *)
(***************************************************************************)
PlayerIds   == {1, 2}          \* part_003:17-20
BonusRounds == 1..MaxBonusRound
NoHistory   == [r \in {} |-> <<>>]

BonusInit ==
    /\ bonusPointsHistory = NoHistory
    /\ appliedBonus = [round |-> 0, playerId |-> 0, roundResults |-> <<>>, value |-> 0]

\* { ...prev, [round]: bonusPoints }
setBonusPointsForRound(round, bonusPoints) ==
    /\ bonusPointsHistory' =
          [r \in (DOMAIN bonusPointsHistory) \cup {round} |->
              IF r = round THEN bonusPoints ELSE bonusPointsHistory[r]]
    /\ UNCHANGED appliedBonus
    /\ ret' = Call("setBonusPointsForRound", "ok")

\* bonusPointsHistory[round]?.[playerId] || 0
DeclaredBonus(round, playerId) ==
    IF round \in DOMAIN bonusPointsHistory
    THEN IF playerId \in DOMAIN bonusPointsHistory[round]
         THEN bonusPointsHistory[round][playerId]
         ELSE 0
    ELSE 0

\* roundResults.find(result => result.playerId === playerId): index of the
\* first match, 0 when find returns undefined
FindResult(roundResults, playerId) ==
    LET hits == {i \in DOMAIN roundResults : roundResults[i].playerId = playerId}
    IN IF hits = {} THEN 0 ELSE CHOOSE i \in hits : \A j \in hits : i <= j

\* a bonus granted whatever the tricks taken
ExactBid_Any(playerResult) == TRUE

\* playerResult.bid === playerResult.tricks
ExactBid(playerResult) == playerResult.bid = playerResult.tricks

AppliedBonusPoints(round, playerId, roundResults) ==
    LET bonusPoints == DeclaredBonus(round, playerId)
        found == FindResult(roundResults, playerId)
    IN IF bonusPoints = 0 THEN 0
       ELSE IF found = 0 THEN 0
       ELSE IF ExactBid(roundResults[found]) THEN bonusPoints ELSE 0

calculateAppliedBonusPoints(round, playerId, roundResults) ==
    /\ appliedBonus' = [round |-> round, playerId |-> playerId,
                   roundResults |-> roundResults,
                   value |-> AppliedBonusPoints(round, playerId, roundResults)]
    /\ UNCHANGED bonusPointsHistory
    /\ ret' = Call("calculateAppliedBonusPoints", "ok")

clearBonusPoints ==
    /\ bonusPointsHistory' = NoHistory
    /\ UNCHANGED appliedBonus
    /\ ret' = Call("clearBonusPoints", "ok")

\* inputs: the per-round declarations and the round's results
BonusDeclarations ==
    {[p \in ids |-> 5] : ids \in SUBSET PlayerIds} \cup {[p \in {1} |-> 0]}
BonusResult == [playerId : PlayerIds, bid : {1}, tricks : 0..1]
\* a round's results hold at most one result per player, in any order
BonusResultLists ==
    {rr \in Enumerated(SeqsUpTo(BonusResult, Cardinality(PlayerIds))) :
        \A i, j \in DOMAIN rr : rr[i].playerId = rr[j].playerId => i = j}

SetBonusPointsForRound ==
    /\ focus = "bonus"
    /\ \E round \in BonusRounds, bonusPoints \in BonusDeclarations :
          setBonusPointsForRound(round, bonusPoints)
    /\ UNCHANGED <<focus, trackerVars, hookVars, rmVars, scoreVars, pageVars, upd, handed, pmVars>>

CalculateAppliedBonusPoints ==
    /\ focus = "bonus"
    /\ \E round \in BonusRounds, playerId \in PlayerIds,
          roundResults \in BonusResultLists :
          calculateAppliedBonusPoints(round, playerId, roundResults)
    /\ UNCHANGED <<focus, trackerVars, hookVars, rmVars, scoreVars, pageVars, upd, handed, pmVars>>

ClearBonusPoints ==
    /\ focus = "bonus"
    /\ clearBonusPoints
    /\ UNCHANGED <<focus, trackerVars, hookVars, rmVars, scoreVars, pageVars, upd, handed, pmVars>>

NextBonus == SetBonusPointsForRound \/ CalculateAppliedBonusPoints \/ ClearBonusPoints

(***************************************************************************)
(* The page script (src/unnamed/part_010).  Of gameState the player list    *)
(* (names only) and currentRound are modelled; roundData, gameHistory and   *)
(* the players' scores do not influence either of them.                     *)
(***************************************************************************)
PageInit ==
    /\ gsPlayers = <<>>
    /\ gsCurrentRound = 1

\* part_010:43-64; name is the trimmed input value
addPlayer(name) ==
    IF name = ""
    THEN /\ ret' = Call("addPlayer", "alert")
         /\ UNCHANGED pageVars
    ELSE IF \E i \in DOMAIN gsPlayers : gsPlayers[i] = name
    THEN /\ ret' = Call("addPlayer", "alert")
         /\ UNCHANGED pageVars
    ELSE /\ gsPlayers' = Append(gsPlayers, name)
         /\ UNCHANGED gsCurrentRound
         /\ ret' = Call("addPlayer", "ok")

\* part_010:66-72
removePlayer(playerName) ==
    /\ gsPlayers' = SelectSeq(gsPlayers, LAMBDA n : n # playerName)
    /\ UNCHANGED gsCurrentRound
    /\ ret' = Call("removePlayer", "ok")

\* part_010:75-84
startNewRound ==
    IF Len(gsPlayers) < 2
    THEN /\ ret' = Call("startNewRound", "alert")
         /\ UNCHANGED pageVars
    ELSE /\ gsCurrentRound' = gsCurrentRound + 1
         /\ UNCHANGED gsPlayers
         /\ ret' = Call("startNewRound", "ok")

\* part_010:86-96; confirmed is the answer to the confirm() dialog
pageResetGame(confirmed) ==
    IF confirmed
    THEN /\ gsPlayers' = <<>>
         /\ gsCurrentRound' = 1
         /\ ret' = Call("resetGame", "ok")
    ELSE /\ UNCHANGED pageVars
         /\ ret' = Call("resetGame", "cancelled")

AddPlayer ==
    /\ focus = "page"
    /\ \E name \in Names \cup {BadName} : addPlayer(name)
    /\ UNCHANGED <<focus, trackerVars, hookVars, rmVars, scoreVars, bonusVars, upd, handed, pmVars>>

RemovePlayer ==
    /\ focus = "page"
    /\ \E playerName \in Names : removePlayer(playerName)
    /\ UNCHANGED <<focus, trackerVars, hookVars, rmVars, scoreVars, bonusVars, upd, handed, pmVars>>

StartNewRound ==
    /\ focus = "page"
    /\ gsCurrentRound < MaxPageRound
    /\ startNewRound
    /\ UNCHANGED <<focus, trackerVars, hookVars, rmVars, scoreVars, bonusVars, upd, handed, pmVars>>

PageResetGame ==
    /\ focus = "page"
    /\ \E confirmed \in BOOLEAN : pageResetGame(confirmed)
    /\ UNCHANGED <<focus, trackerVars, hookVars, rmVars, scoreVars, bonusVars, upd, handed, pmVars>>

NextPage == AddPlayer \/ RemovePlayer \/ StartNewRound \/ PageResetGame

(***************************************************************************)
(* updatePlayerScores (src/js/scoring.js).  The file declares the function  *)
(* twice (55-89 and 159-185); the later declaration is the one in effect.   *)
(* A player is [id, hasScore, score] (hasScore: typeof score === 'number'), *)
(* a round result [hasPlayerId, playerId, numericScore, score].  The call   *)
(* works on a copy, so its outcome is [out, players].                       *)
(***************************************************************************)
\* updatedPlayers.find(p => p.id === result.playerId): index, 0 for undefined
FindPlayer(ps, playerId) ==
    LET hits == {i \in DOMAIN ps : ps[i].id = playerId}
    IN IF hits = {} THEN 0 ELSE CHOOSE i \in hits : \A j \in hits : i <= j

\* scoring.js:170 -- the shape test of one result
MalformedResult(result) == ~result.hasPlayerId \/ ~result.numericScore

\* scoring.js:176-180
AddToScore(player, points) ==
    [player EXCEPT !.hasScore = TRUE,
                   !.score = (IF player.hasScore THEN player.score ELSE 0) + points]

\* scoring.js:174-181 with a player not found: `if (player)` skips the result
UnknownPlayer(ps, result) == [out |-> "ok", players |-> ps]

\* scoring.js:169-182, one iteration of forEach
ApplyResult(ps, result) ==
    IF MalformedResult(result)
    THEN [out |-> "error", players |-> ps]
    ELSE LET found == FindPlayer(ps, result.playerId)
         IN IF found = 0
            THEN UnknownPlayer(ps, result)
            ELSE [out |-> "ok",
                  players |-> [ps EXCEPT ![found] = AddToScore(ps[found], result.score)]]

RECURSIVE ApplyResults(_, _, _)
ApplyResults(ps, roundResults, i) ==
    IF i > Len(roundResults)
    THEN [out |-> "ok", players |-> ps]
    ELSE LET step == ApplyResult(ps, roundResults[i])
         IN IF step.out = "error"
            THEN step
            ELSE ApplyResults(step.players, roundResults, i + 1)

\* scoring.js:159-185; arrays: both arguments pass Array.isArray.
\* A throw returns no list: the outcome keeps the caller's players.
updatePlayerScores(arrays, ps, roundResults) ==
    IF ~arrays
    THEN [out |-> "error", players |-> ps]
    ELSE LET done == ApplyResults(ps, roundResults, 1)
         IN IF done.out = "error" THEN [out |-> "error", players |-> ps] ELSE done

UpdateInit ==
    upd = [players |-> <<>>, roundResults |-> <<>>, out |-> "none", result |-> <<>>]

\* inputs: players with distinct ids, results naming known ids, an id that
\* names no player, and the two malformed shapes
UnknownId == Cardinality(PlayerIds) + 1
UpdPlayer ==
    {p \in [id : PlayerIds, hasScore : BOOLEAN, score : {0, 10}] :
        p.hasScore \/ p.score = 0}
UpdPlayerLists ==
    {ps \in Enumerated(SeqsUpTo(UpdPlayer, Cardinality(PlayerIds))) :
        \A i, j \in DOMAIN ps : i < j => ps[i].id < ps[j].id}
UpdResult ==
    [hasPlayerId : {TRUE}, playerId : PlayerIds \cup {UnknownId},
     numericScore : {TRUE}, score : {10}]
    \cup {[hasPlayerId |-> FALSE, playerId |-> 0, numericScore |-> TRUE, score |-> 10],
          [hasPlayerId |-> TRUE, playerId |-> 1, numericScore |-> FALSE, score |-> 0]}
UpdResultLists == Enumerated(SeqsUpTo(UpdResult, MaxResults))

UpdatePlayerScores ==
    /\ focus = "update"
    /\ \E arrays \in BOOLEAN, ps \in UpdPlayerLists, roundResults \in UpdResultLists :
          LET r == updatePlayerScores(arrays, ps, roundResults)
          IN /\ upd' = [players |-> ps, roundResults |-> roundResults,
                        out |-> r.out, result |-> r.players]
             /\ ret' = Call("updatePlayerScores", r.out)
    /\ UNCHANGED <<focus, trackerVars, hookVars, rmVars, scoreVars, bonusVars, pageVars, handed, pmVars>>

NextUpdate == UpdatePlayerScores

(***************************************************************************)
(* A whole game: a ScoreTracker for the roster, fed each round with the     *)
(* calculateScore result of every player's bid and tricks; round N deals N  *)
(* cards.                                                                   *)
(***************************************************************************)
\* one player's round: a bid of nothing, one trick or every card, and no trick
\* or every trick taken
Plays(cards) == [bid : {0, 1, cards}, tricks : {0, cards}]

\* the roundScores object built from the players' calculateScore results
ScoredEntries(plays, cards) ==
    [i \in DOMAIN Roster |->
        [key |-> Roster[i],
         num |-> calculateScore(plays[i].bid, plays[i].tricks, cards).out = "ok",
         val |-> calculateScore(plays[i].bid, plays[i].tricks, cards).val]]

StartGame ==
    /\ focus = "game"
    /\ initializePlayers(Roster)
    /\ UNCHANGED <<focus, hookVars, rmVars, scoreVars, bonusVars, pageVars, upd, handed, pmVars>>

PlayRound ==
    /\ focus = "game"
    /\ players # <<>>
    /\ Len(rounds) < MaxRounds
    /\ \E plays \in [DOMAIN Roster -> Plays(Len(rounds) + 1)] :
          addRoundScores(ScoredEntries(plays, Len(rounds) + 1))
    /\ UNCHANGED <<focus, hookVars, rmVars, scoreVars, bonusVars, pageVars, upd, handed, pmVars>>

FinishGame ==
    /\ focus = "game"
    /\ endGame
    /\ UNCHANGED <<focus, hookVars, rmVars, scoreVars, bonusVars, pageVars, upd, handed, pmVars>>

NextGame == StartGame \/ PlayRound \/ FinishGame

(***************************************************************************)
(* PlayerManager (src/src/player-manager.js).  A name argument is            *)
(* [n, cap, pad]: the text "player n", written in capitals when cap, with     *)
(* surrounding blanks when pad; n = 0 is an empty, blank or non-string        *)
(* argument.  A stored name is the trimmed text [n, cap].  generatePlayerId   *)
(* yields an id never used before: the next value of the counter nextId.      *)
(* Every call returns a result object; its outcome is "ok" or the error.      *)
(***************************************************************************)
Locked == "Cannot modify players after game has started"

PmInit ==
    /\ pmPlayers = <<>>
    /\ gameStarted = FALSE
    /\ nextId = 1

\* !name || typeof name !== 'string' || name.trim() === ''
NameMissing(name) == name.n = 0

\* name.trim()
Trim(name) == [n |-> name.n, cap |-> name.cap]

\* toLowerCase()
LowerCase(name) == [name EXCEPT !.cap = FALSE]

\* player-manager.js:218-222
isDuplicateName(name) ==
    \E i \in DOMAIN pmPlayers : LowerCase(pmPlayers[i].name) = LowerCase(name)

\* players.findIndex / find by id: the index, 0 when absent
PmIndex(playerId) ==
    IF \E i \in DOMAIN pmPlayers : pmPlayers[i].id = playerId
    THEN CHOOSE i \in DOMAIN pmPlayers : pmPlayers[i].id = playerId
    ELSE 0

\* a manager that forgets the lock
GameStartedCheck_Skipped == FALSE

\* if (this.gameStarted) return the 'Cannot modify' error
GameStartedCheck == gameStarted

\* a manager without the maximum test of addPlayer
AtMaximum_Never == FALSE

\* this.players.length >= this.maxPlayers
AtMaximum == Len(pmPlayers) >= maxPlayers

\* player-manager.js:19-62
pmAddPlayer(name) ==
    IF GameStartedCheck
    THEN ret' = Call("addPlayer", Locked) /\ UNCHANGED pmVars
    ELSE IF NameMissing(name)
    THEN ret' = Call("addPlayer", "Player name is required") /\ UNCHANGED pmVars
    ELSE IF AtMaximum
    THEN ret' = Call("addPlayer", "Maximum players allowed") /\ UNCHANGED pmVars
    ELSE IF isDuplicateName(Trim(name))
    THEN ret' = Call("addPlayer", "Player name already exists") /\ UNCHANGED pmVars
    ELSE /\ pmPlayers' = Append(pmPlayers, [id |-> nextId, name |-> Trim(name), score |-> 0])
         /\ nextId' = nextId + 1
         /\ UNCHANGED gameStarted
         /\ ret' = Call("addPlayer", "ok")

\* player-manager.js:69-92
pmRemovePlayer(playerId) ==
    IF GameStartedCheck
    THEN ret' = Call("removePlayer", Locked) /\ UNCHANGED pmVars
    ELSE IF PmIndex(playerId) = 0
    THEN ret' = Call("removePlayer", "Player not found") /\ UNCHANGED pmVars
    ELSE /\ pmPlayers' = SubSeq(pmPlayers, 1, PmIndex(playerId) - 1)
                          \o SubSeq(pmPlayers, PmIndex(playerId) + 1, Len(pmPlayers))
         /\ UNCHANGED <<gameStarted, nextId>>
         /\ ret' = Call("removePlayer", "ok")

\* player-manager.js:100-139
editPlayer(playerId, newName) ==
    IF GameStartedCheck
    THEN ret' = Call("editPlayer", Locked) /\ UNCHANGED pmVars
    ELSE IF NameMissing(newName)
    THEN ret' = Call("editPlayer", "Player name is required") /\ UNCHANGED pmVars
    ELSE IF PmIndex(playerId) = 0
    THEN ret' = Call("editPlayer", "Player not found") /\ UNCHANGED pmVars
    ELSE IF \E i \in DOMAIN pmPlayers :
               /\ pmPlayers[i].id # playerId
               /\ LowerCase(pmPlayers[i].name) = LowerCase(Trim(newName))
    THEN ret' = Call("editPlayer", "Player name already exists") /\ UNCHANGED pmVars
    ELSE /\ pmPlayers' = [pmPlayers EXCEPT ![PmIndex(playerId)].name = Trim(newName)]
         /\ UNCHANGED <<gameStarted, nextId>>
         /\ ret' = Call("editPlayer", "ok")

\* player-manager.js:145-166
startGame ==
    IF Len(pmPlayers) < minPlayers
    THEN ret' = Call("startGame", "At least minPlayers players required") /\ UNCHANGED pmVars
    ELSE IF Len(pmPlayers) > maxPlayers
    THEN ret' = Call("startGame", "Maximum players allowed") /\ UNCHANGED pmVars
    ELSE /\ gameStarted' = TRUE
         /\ UNCHANGED <<pmPlayers, nextId>>
         /\ ret' = Call("startGame", "ok")

\* player-manager.js:208-211
pmReset ==
    /\ pmPlayers' = <<>>
    /\ gameStarted' = FALSE
    /\ UNCHANGED nextId
    /\ ret' = Call("reset", "ok")

\* inputs of the PlayerManager calls: a missing name, "player 1" in either
\* case (a duplicate once it is taken), and the first name nobody carries;
\* the id of the last player and an id that no player has
MaxIds == maxPlayers + ExtraIds
UsedNumbers == {pmPlayers[i].name.n : i \in DOMAIN pmPlayers}
FreshNumber ==
    CHOOSE n \in 1..(Len(pmPlayers) + 1) :
        n \notin UsedNumbers /\ \A m \in 1..(n - 1) : m \in UsedNumbers
NameInputs ==
    {[n |-> 0, cap |-> FALSE, pad |-> FALSE]}
    \cup [n : {1}, cap : BOOLEAN, pad : BOOLEAN]
    \cup [n : {FreshNumber}, cap : {FALSE}, pad : BOOLEAN]
\* editPlayer is offered the missing name and "player 1" in either case
EditNameInputs == {name \in NameInputs : name.n <= 1}
IdInputs ==
    {0} \cup {pmPlayers[i].id : i \in {Len(pmPlayers)} \ {0}}

PmAddPlayer ==
    /\ focus = "pm"
    /\ nextId <= MaxIds
    /\ \E name \in NameInputs : pmAddPlayer(name)
    /\ UNCHANGED <<focus, trackerVars, hookVars, rmVars, scoreVars, bonusVars, pageVars, upd, handed>>

PmRemovePlayer ==
    /\ focus = "pm"
    /\ \E playerId \in IdInputs : pmRemovePlayer(playerId)
    /\ UNCHANGED <<focus, trackerVars, hookVars, rmVars, scoreVars, bonusVars, pageVars, upd, handed>>

EditPlayer ==
    /\ focus = "pm"
    /\ \E playerId \in IdInputs, newName \in EditNameInputs : editPlayer(playerId, newName)
    /\ UNCHANGED <<focus, trackerVars, hookVars, rmVars, scoreVars, bonusVars, pageVars, upd, handed>>

StartGamePm ==
    /\ focus = "pm"
    /\ startGame
    /\ UNCHANGED <<focus, trackerVars, hookVars, rmVars, scoreVars, bonusVars, pageVars, upd, handed>>

PmReset ==
    /\ focus = "pm"
    /\ pmReset
    /\ UNCHANGED <<focus, trackerVars, hookVars, rmVars, scoreVars, bonusVars, pageVars, upd, handed>>

NextPm == PmAddPlayer \/ PmRemovePlayer \/ EditPlayer \/ StartGamePm \/ PmReset

(***************************************************************************)
(* Specifications                                                          *)
(***************************************************************************)
Constructed ==
    /\ ret = Call("none", "none")
    /\ TrackerInit /\ HookInit /\ RmInit /\ ScoreInit
    /\ BonusInit /\ PageInit /\ UpdateInit
    /\ ReadsInit /\ PmInit

InitTracker == focus = "tracker" /\ Constructed
InitHook    == focus = "hook" /\ Constructed
InitRounds  == focus = "rm" /\ Constructed
InitScore   == focus = "score" /\ Constructed
InitBonus   == focus = "bonus" /\ Constructed
InitPage    == focus = "page" /\ Constructed
InitUpdate  == focus = "update" /\ Constructed
InitGame    == focus = "game" /\ Constructed
InitReads   == focus = "reads" /\ Constructed
InitPm      == focus = "pm" /\ Constructed
InitProgression == focus \in {"hook", "rm"} /\ Constructed

NextProgression == NextHook \/ NextRm

\* the three holders of a currentRound counter
InitCounters == focus \in {"hook", "rm", "page"} /\ Constructed
NextCounters == NextHook \/ NextRm \/ NextPage

SpecTracker == InitTracker /\ [][NextTracker]_vars
SpecHook    == InitHook /\ [][NextHook]_vars
SpecRounds  == InitRounds /\ [][NextRm]_vars
SpecScore   == InitScore /\ [][NextScore]_vars
SpecProgression == InitProgression /\ [][NextProgression]_vars
SpecBonus   == InitBonus /\ [][NextBonus]_vars
SpecPage    == InitPage /\ [][NextPage]_vars
SpecUpdate  == InitUpdate /\ [][NextUpdate]_vars
SpecGame    == InitGame /\ [][NextGame]_vars
SpecReads   == InitReads /\ [][NextReads]_vars
SpecPm      == InitPm /\ [][NextPm]_vars
SpecCounters == InitCounters /\ [][NextCounters]_vars

(***************************************************************************)
(* Claims about ScoreTracker (under SpecTracker)                           *)
(***************************************************************************)
AddRejected == ret.op = "addRoundScores" /\ ret.outcome = "error"
AddAccepted == ret.op = "addRoundScores" /\ ret.outcome = "ok"

\* C3: every rejected addRoundScores call leaves players, rounds, currentRound
\* and gameEnded exactly as they were.
C3_RejectedAddLeavesTracker ==
    [][(ret'.op = "addRoundScores" /\ ret'.outcome = "error")
          => UNCHANGED trackerVars]_vars

\* C4: in every reachable state each recorded round's scores have exactly the
\* initialized players as keys.
C4_RoundKeysArePlayers ==
    \A r \in DOMAIN rounds : DOMAIN rounds[r].scores = PlayerNames(players)

\* C5: once the game has ended, a step that is an addRoundScores call ends in
\* an error and changes nothing of the tracker.
C5_NoRoundAfterEndGame ==
    [][(gameEnded /\ ret'.op = "addRoundScores")
          => (ret'.outcome = "error" /\ UNCHANGED trackerVars)]_vars

\* C5 witness: a call was rejected after endGame on a tracker that has players
\* and a recorded round.
C5_Witness ==
    /\ gameEnded /\ AddRejected
    /\ Len(players) = 3 /\ Len(rounds) >= 1

\* C6: after a successful addRoundScores every player's rank is 1 plus the
\* number of players with a strictly greater total.
RankOf(ps, i) ==
    1 + Cardinality({j \in DOMAIN ps : ps[j].totalScore > ps[i].totalScore})

C6_CompetitionRanks ==
    AddAccepted => \A i \in DOMAIN players : players[i].rank = RankOf(players, i)

\* C6 witness: two players tied for the lead and the third ranked 3.
C6_Witness ==
    /\ AddAccepted /\ Len(players) = 3
    /\ players[1].totalScore = players[2].totalScore
    /\ players[3].totalScore < players[1].totalScore
    /\ players[1].rank = 1 /\ players[2].rank = 1 /\ players[3].rank = 3

\* C7: in every reachable state each player's totalScore is the sum of the
\* player's roundScores and the sum of the player's score over all recorded rounds.
RECURSIVE SumOverRounds(_, _)
SumOverRounds(rs, name) ==
    IF rs = <<>> THEN 0
    ELSE (IF name \in DOMAIN Head(rs).scores THEN Head(rs).scores[name].val ELSE 0)
         + SumOverRounds(Tail(rs), name)

C7_TotalIsSumOfRounds ==
    \A i \in DOMAIN players :
        /\ players[i].totalScore = SeqSum(players[i].roundScores)
        /\ players[i].totalScore = SumOverRounds(rounds, players[i].name)

(***************************************************************************)
(* Claims about the round managers (SpecHook, SpecProgression)             *)
(***************************************************************************)
\* C1: once gameComplete is true, every later advanceRound, goToRound and
\* updateHandCompletion call is rejected and leaves currentRound, the
\* per-round data and gameComplete unchanged.
C1_FrozenAfterGameComplete ==
    [][gameComplete => (ret'.outcome = "error" /\ UNCHANGED hookVars)]_vars

\* C2 as claimed: in every round from 1 to the last inclusive, advanceRound()
\* on an incomplete round raises an error and changes nothing.
RmIncomplete == completedHands < rmCurrentRound

Called == score.fn # "none"

PreconditionsHold ==
    /\ bid >= 0 /\ actualTricks >= 0 /\ cardsDealt > 0
    /\ bid <= cardsDealt /\ actualTricks <= cardsDealt

\* C8: the base-score function raises an error, and returns no score, for
\* every input with bid < 0, tricksTaken < 0, cardsDealt <= 0,
\* bid > cardsDealt or tricksTaken > cardsDealt.
C8_RejectsOutOfDomain ==
    (Called /\ ~PreconditionsHold) => score.out = "error"

\* C9: for bid 0 and cardsDealt > 0 the score is 10 * cardsDealt when no trick
\* was taken and -10 * cardsDealt for any number of tricks taken; both
\* functions return it on every input they accept, calculateScore for every
\* tricksTaken >= 0 and calculateRoundScore for every tricksTaken <= cardsDealt.
ZeroBidExpected ==
    IF actualTricks = 0 THEN 10 * cardsDealt ELSE (0 - 10) * cardsDealt

C9_ZeroBid ==
    (Called /\ bid = 0 /\ cardsDealt > 0 /\ actualTricks >= 0) =>
        /\ score.out = "ok" => score.val = ZeroBidExpected
        /\ score.fn = "calculateScore" => score.out = "ok"
        /\ actualTricks <= cardsDealt => score.out = "ok"

\* C9 witness: a failed zero bid with two tricks taken of three cards.
C9_Witness ==
    /\ Called /\ bid = 0 /\ actualTricks = 2 /\ cardsDealt = 3
    /\ score.out = "ok" /\ score.val = 0 - 30

\* C10: for bid > 0 and tricksTaken = bid the score is 20 * bid whatever
\* cardsDealt is, on every input the function accepts (calculateScore for every
\* cardsDealt > 0, calculateRoundScore for every cardsDealt >= bid).
C10_ExactBid ==
    (Called /\ bid > 0 /\ actualTricks = bid) =>
        /\ score.out = "ok" => score.val = 20 * bid
        /\ (score.fn = "calculateScore" /\ cardsDealt > 0) => score.out = "ok"
        /\ cardsDealt >= bid => score.out = "ok"

\* C10 witness: a bid of 2 made exactly with 4 cards dealt scores 40.
C10_Witness ==
    /\ Called /\ bid = 2 /\ actualTricks = 2 /\ cardsDealt = 4
    /\ score.out = "ok" /\ score.val = 40


\* C11: for bid > 0 and tricksTaken different from the bid (tricksTaken = 0
\* included) the score is -10 * |bid - tricksTaken|, on every input the
\* function accepts (calculateScore for every cardsDealt > 0,
\* calculateRoundScore when neither number exceeds cardsDealt).
C11_MissedBid ==
    (Called /\ bid > 0 /\ actualTricks >= 0 /\ actualTricks # bid) =>
        /\ score.out = "ok" => score.val = (0 - 10) * Abs(bid - actualTricks)
        /\ (score.fn = "calculateScore" /\ cardsDealt > 0) => score.out = "ok"
        /\ (cardsDealt >= bid /\ cardsDealt >= actualTricks) => score.out = "ok"

\* C11 witness: a bid of 3 with no trick taken costs 30.
C11_Witness ==
    /\ Called /\ bid = 3 /\ actualTricks = 0 /\ cardsDealt = 4
    /\ score.out = "ok" /\ score.val = 0 - 30


(***************************************************************************)
(* Claims about useBonusPoints (under SpecBonus)                           *)
(***************************************************************************)
BonusCalled == ret.op = "calculateAppliedBonusPoints"
OwnResults ==
    {i \in DOMAIN appliedBonus.roundResults :
        appliedBonus.roundResults[i].playerId = appliedBonus.playerId}

\* C12: the bonus applied to a player for a round is the bonus declared for
\* that player and round when the player's result has bid = tricks, and 0 in
\* every other case (bid missed, or no result recorded for the player).
C12_BonusOnlyForExactBid ==
    BonusCalled =>
        LET declared == DeclaredBonus(appliedBonus.round, appliedBonus.playerId)
            rr == appliedBonus.roundResults
        IN /\ OwnResults = {} => appliedBonus.value = 0
           /\ \A i \in OwnResults :
                 appliedBonus.value = IF rr[i].bid = rr[i].tricks THEN declared ELSE 0

\* C12 witness: a declared bonus of 5 withheld from a player who missed the bid.
C12_Witness ==
    /\ BonusCalled
    /\ DeclaredBonus(appliedBonus.round, appliedBonus.playerId) = 5
    /\ \E i \in OwnResults : appliedBonus.roundResults[i].bid
                              # appliedBonus.roundResults[i].tricks
    /\ appliedBonus.value = 0


(***************************************************************************)
(* Further claims about the round managers                                 *)
(***************************************************************************)
HookRound == roundsData[hCurrentRound]

\* C13: the round manager reports that it can advance exactly when the hands
\* completed in the current round N equal the N hands the round requires;
\* initially (round 1, no hand) it cannot advance.
C13_AdvanceIffAllHands ==
    /\ focus = "rm" => (canAdvanceRound <=> completedHands = rmCurrentRound)
    /\ focus = "hook" =>
          (isRoundComplete(hCurrentRound)
              <=> HookRound.handsCompleted = HookRound.handsRequired)
    /\ ret.op = "none" => (~canAdvanceRound /\ ~isRoundComplete(hCurrentRound))


\* C14: a successful advanceRound() from a complete round N below the last
\* round moves to round N+1 exactly, and the new current round starts with 0
\* completed hands and N+1 hands required.
C14_AdvanceEntersFreshRound ==
    [][(ret'.op = "advanceRound" /\ ret'.outcome \in {"ok", "true"}) =>
          /\ (focus = "rm" /\ rmCurrentRound < LastRound) =>
                /\ rmCurrentRound' = rmCurrentRound + 1
                /\ completedHands' = 0
          /\ (focus = "hook" /\ hCurrentRound < totalRounds) =>
                /\ hCurrentRound' = hCurrentRound + 1
                /\ roundsData'[hCurrentRound'].handsCompleted = 0
                /\ roundsData'[hCurrentRound'].handsRequired = hCurrentRound + 1]_vars


\* C15: gameComplete starts false and becomes true only through an
\* advanceRound() performed while currentRound = totalRounds and that round is
\* complete.
C15_GameCompleteOnlyFromLastRound ==
    [][/\ ret.op = "none" => ~gameComplete
       /\ (gameComplete' /\ ~gameComplete) =>
             /\ ret'.op = "advanceRound" /\ ret'.outcome = "ok"
             /\ hCurrentRound = totalRounds
             /\ HookRound.handsCompleted >= HookRound.handsRequired]_vars

\* C15 witness: the game completed from the last round with every round
\* complete, each one having been advanced from.
C15_Witness ==
    /\ focus = "hook" /\ gameComplete /\ ret = Call("advanceRound", "ok")
    /\ hCurrentRound = totalRounds
    /\ \A r \in RoundNumbers :
          /\ roundsData[r].handsCompleted = roundsData[r].handsRequired
          /\ r > 1 => roundsData[r].startTime

\* C16: goToRound(target) succeeds only when 1 <= target <= currentRound and
\* then makes target the current round; any other target raises an error and
\* changes nothing, and currentRound grows only by an advanceRound().
C16_GoToRoundNeverSkipsAhead ==
    [][/\ ret'.op = "goToRound" =>
             IF 1 <= ret'.roundNumber /\ ret'.roundNumber <= hCurrentRound
             THEN ret'.outcome = "ok" /\ hCurrentRound' = ret'.roundNumber
             ELSE ret'.outcome = "error" /\ UNCHANGED hookVars
       /\ hCurrentRound' > hCurrentRound => ret'.op = "advanceRound"]_vars

\* C16 witness: from round 2 a goToRound(3) inside 1..totalRounds was refused.
C16_Witness ==
    /\ focus = "hook" /\ ret = GoTo(3, "error")
    /\ hCurrentRound = 2 /\ 3 <= totalRounds

\* C17: revisiting is read-only -- once round k has been advanced past (round
\* k+1 was started), no operation changes round k's recorded handsCompleted,
\* scores or completion status.
C17_RevisitedRoundReadOnly ==
    [][\A k \in 1..(totalRounds - 1) :
          roundsData[k + 1].startTime =>
             /\ roundsData'[k].handsCompleted = roundsData[k].handsCompleted
             /\ roundsData'[k].scores = roundsData[k].scores
             /\ roundsData'[k].isComplete = roundsData[k].isComplete]_vars


\* C18: currentRound starts at 1 and, after any sequence of operations, stays
\* within 1..totalRounds (10 where the code has no option for it).
C18_CurrentRoundInRange ==
    /\ ret.op = "none" =>
          (rmCurrentRound = 1 /\ hCurrentRound = 1 /\ gsCurrentRound = 1)
    /\ rmCurrentRound \in 1..LastRound
    /\ hCurrentRound \in 1..totalRounds
    /\ gsCurrentRound \in 1..LastRound


(***************************************************************************)
(* Claims about updatePlayerScores (under SpecUpdate)                      *)
(***************************************************************************)
NamesNoPlayer(result) ==
    /\ result.hasPlayerId
    /\ \A i \in DOMAIN upd.players : upd.players[i].id # result.playerId

\* C19: a round submission that references a playerId matching no known
\* player is rejected with an error: no updated player list is returned.
C19_UnknownPlayerRejected ==
    (upd.out # "none" /\ \E i \in DOMAIN upd.roundResults :
                             NamesNoPlayer(upd.roundResults[i]))
        => upd.out = "error"

TopScorers(ps) ==
    {ps[i].name : i \in {j \in DOMAIN ps :
                            \A k \in DOMAIN ps : ps[j].totalScore >= ps[k].totalScore}}
LeaderNames(ps) ==
    {getCurrentLeaders(ps)[i].name : i \in DOMAIN getCurrentLeaders(ps)}

Numeric(v) == [num |-> TRUE, val |-> v]
RoundOne == [k \in Names |-> Numeric(CASE k = "Alice" -> 20 [] k = "Bob" -> 10
                                          [] OTHER -> 0 - 10)]
RoundTwo == [k \in Names |-> Numeric(CASE k = "Alice" -> 0 - 10 [] k = "Bob" -> 40
                                          [] OTHER -> 20)]
ScenarioPlayed ==
    /\ Len(rounds) = 2
    /\ rounds[1].scores = RoundOne
    /\ rounds[2].scores = RoundTwo

\* C22: the end-to-end game.  With 1 card dealt the plays 1/1, 0/0, 0/1 score
\* 20, 10, -10 and with 2 cards the plays 1/0, 2/2, 0/0 score -10, 40, 20;
\* after these two rounds the totals are Alice 10, Bob 50, Charlie 10, the
\* standings are Bob with rank 1 then Alice and Charlie sharing rank 2, and
\* Bob is the only leader.
C22_EndToEndGame ==
    /\ calculateScore(1, 1, 1) = Returned(20)
    /\ calculateScore(0, 0, 1) = Returned(10)
    /\ calculateScore(0, 1, 1) = Returned(0 - 10)
    /\ calculateScore(1, 0, 2) = Returned(0 - 10)
    /\ calculateScore(2, 2, 2) = Returned(40)
    /\ calculateScore(0, 0, 2) = Returned(20)
    /\ ScenarioPlayed =>
          LET s == getCurrentStandings(players)
          IN /\ [i \in DOMAIN players |-> players[i].totalScore] = <<10, 50, 10>>
             /\ [n \in DOMAIN s |-> s[n].name] = <<"Bob", "Alice", "Charlie">>
             /\ [n \in DOMAIN s |-> s[n].rank] = <<1, 2, 2>>
             /\ LeaderNames(players) = {"Bob"}
             /\ Len(getCurrentLeaders(players)) = 1
             /\ ret = Call("endGame", "ok") => gameEnded

\* C22 witness: the two rounds were played and the game was ended.
C22_Witness ==
    /\ focus = "game" /\ ScenarioPlayed
    /\ gameEnded /\ ret = Call("endGame", "ok")
    /\ currentRound = 2


(***************************************************************************)
(* Claims about initializePlayers (under SpecTracker)                      *)
(***************************************************************************)
\* C23: initializePlayers with a non-empty list (of valid names) resets all
\* tracker state from any prior state -- no rounds, currentRound 0, gameEnded
\* false, every listed player with totalScore 0, empty roundScores and rank
\* 1 -- and with an empty list it fails with an error.
C23_InitializeResets ==
    [][\A names \in NameLists :
          (/\ focus \in TrackerFocus /\ ret'.op = "initializePlayers"
           /\ initializePlayers(names)) =>
             IF names = <<>>
             THEN ret'.outcome = "error"
             ELSE AllNamesValid(names) =>
                     /\ ret'.outcome = "ok"
                     /\ rounds' = <<>> /\ currentRound' = 0 /\ gameEnded' = FALSE
                     /\ players' = [i \in DOMAIN names |-> NewPlayer(names[i])]]_vars

\* C23 witness: all three roster names initialized, nothing recorded.
C23_Witness ==
    /\ focus \in TrackerFocus /\ ret = Call("initializePlayers", "ok")
    /\ Len(players) = Len(Roster) /\ rounds = <<>> /\ ~gameEnded

\* C30: an initializePlayers call that fails leaves the tracker's previous
\* players, rounds, currentRound and gameEnded unchanged.
C30_FailedInitializeLeavesTracker ==
    [][(ret'.op = "initializePlayers" /\ ret'.outcome = "error")
          => UNCHANGED trackerVars]_vars

\* C27: in every reachable state currentRound equals the number of recorded
\* rounds, and the recorded rounds carry the numbers 1, 2, ..., n in order.
C27_RoundNumbersSequential ==
    /\ currentRound = Len(rounds)
    /\ \A i \in DOMAIN rounds : rounds[i].roundNumber = i


(***************************************************************************)
(* Invariants of the round managers                                        *)
(***************************************************************************)
\* C28: in the hook every round numbered below currentRound is complete
\* (handsCompleted >= handsRequired), and each round's stored isComplete flag
\* agrees with handsCompleted >= handsRequired.
C28_EarlierRoundsComplete ==
    /\ \A r \in RoundNumbers :
          r < hCurrentRound => roundsData[r].handsCompleted >= roundsData[r].handsRequired
    /\ \A r \in RoundNumbers :
          roundsData[r].isComplete
              <=> roundsData[r].handsCompleted >= roundsData[r].handsRequired

\* C28 witness: back on round 2 after the last round was reached, with round
\* 1 complete and round 2 re-opened and left incomplete.
C28_Witness ==
    /\ focus = "hook" /\ hCurrentRound = 2
    /\ roundsData[totalRounds].startTime
    /\ roundsData[1].isComplete /\ ~roundsData[2].isComplete
    /\ ret.op = "updateHandCompletion"

\* C29: in RoundManager 0 <= completedHands <= currentRound in every
\* reachable state.
C29_HandsWithinRound ==
    0 <= completedHands /\ completedHands <= rmCurrentRound

\* C29 witness: completeHand called on a round 2 whose 2 hands are counted.
C29_Witness ==
    /\ focus = "rm" /\ ret = Call("completeHand", "ok")
    /\ rmCurrentRound = 2 /\ completedHands = 2


(***************************************************************************)
(* Claims about the ScoreTracker getters (under SpecReads)                 *)
(***************************************************************************)
ReadOps ==
    {"getCurrentStandings", "getCurrentLeaders", "getRoundBreakdown",
     "getGameSummary", "getPlayerHistory", "mutateReturned"}

\* C24: reading never changes the tracker -- the five getters leave players
\* (totals, ranks, roundScores), rounds, currentRound and gameEnded unchanged,
\* and a caller modifying the returned arrays does not alter them either.
C24_ReadsLeaveTracker ==
    [][ret'.op \in ReadOps => UNCHANGED trackerVars]_vars

\* C24 witness: a caller emptied the arrays handed out by getGameSummary of a
\* tracker that holds a round, and the round is still there.
C24_Witness ==
    /\ focus = "reads" /\ ret = Call("mutateReturned", "ok")
    /\ handed.op = "getGameSummary"
    /\ Len(rounds) = 1 /\ players # <<>> /\ players[1].roundScores # <<>>

(***************************************************************************)
(* Claims about PlayerManager (under SpecPm)                               *)
(***************************************************************************)
\* C25: once startGame() has succeeded, every addPlayer, removePlayer and
\* editPlayer call fails with 'Cannot modify players after game has started'
\* and leaves the player list unchanged, until reset() is called.
C25_LockedAfterStart ==
    [][gameStarted =>
          /\ ret'.op \in {"addPlayer", "removePlayer", "editPlayer"} =>
                (ret'.outcome = Locked /\ UNCHANGED pmPlayers)
          /\ ret'.op # "reset" => (gameStarted' /\ UNCHANGED pmPlayers)]_vars

\* C25 witness: an edit refused on a started game of two players.
C25_Witness ==
    /\ focus = "pm" /\ gameStarted /\ Len(pmPlayers) = minPlayers
    /\ ret = Call("editPlayer", Locked)

\* C26: the player count never exceeds 8; gameStarted is true only with
\* between 2 and 8 players; startGame with fewer than 2 players fails and
\* leaves gameStarted false.
C26_PlayerCountBounds ==
    /\ Len(pmPlayers) <= maxPlayers
    /\ gameStarted => (minPlayers <= Len(pmPlayers) /\ Len(pmPlayers) <= maxPlayers)
    /\ (ret.op = "startGame" /\ Len(pmPlayers) < minPlayers) =>
          (ret.outcome # "ok" /\ ~gameStarted)

\* C26 witness: a ninth player refused.
C26_Witness ==
    /\ focus = "pm" /\ Len(pmPlayers) = maxPlayers
    /\ ret = Call("addPlayer", "Maximum players allowed")

====
